---- MODULE Spec2Model ----
(***************************************************************************)
(* A model of the anki-agent pipeline:                                     *)
(*   - AnkiAgent (src/src/anki_agent/agent.py): router with the            *)
(*     _tool_called dispatch guard, then the write of the card;            *)
(*   - AnkiAgentOrchestrator + VerifyingAgent (orchestrator.py,            *)
(*     verifying_agent.py): router, verifier, bounded retry, write;        *)
(*   - the card store client (anki.py): invoke, add_flashcard,             *)
(*     add_basic_note, against an AnkiConnect store.                       *)
(* The classifier, the generators' sub-agents, the verifier and the store  *)
(* are the environment: their answers are nondeterministic choices.        *)
(***************************************************************************)
EXTENDS Integers, Sequences, FiniteSets, TLC

\* ------------------------------------------------------------------ bounds
NumRequests == 2      \* top-level requests issued on one agent instance
MaxCalls == 2         \* generator-tool invocations the classifier issues in one router run
MaxRetriesConc == 2   \* largest max_retries of a VerifyingAgent running two requests at once
MaxRetries == 3       \* largest max_retries a VerifyingAgent is built with

\* ------------------------------------------------------- program constants
DUPLICATE_NOTE == -2  \* anki.py: special return for duplicate note attempts
WRITE_ERROR == -1     \* anki.py: add_basic_note's return on any other RuntimeError

Requests == 1..NumRequests
Kinds == {"noun", "adjective", "verb", "phrase", "fallback"}
Reasons == {"too vague", "missing sample"}

Sentinel == "duplicate_tool_call_ignored"
Running == "running"
NoValue == "none"

VARIABLES
  tool_called,   \* AnkiAgent._tool_called, one field of the shared instance
  max_retries,   \* VerifyingAgent.max_retries
  store,         \* the notes the card store holds: records [deck, front, back, id]
  pc,            \* pc[r]: where request r is
  req,           \* req[r]: the arguments (word, deck, target_lang) of add_word
  deps,          \* deps[r]: Deps(deck, target_lang)
  message,       \* message[r]: the user message, with the verifier feedback appended
  attempt,       \* attempt[r]: router attempts started by VerifyingAgent.run
  calls,         \* calls[r]: the tool invocations of r's current router run, in order:
                 \* [ran, ret, source], source being the text a generator was run with
  gen,           \* gen[r]: the generator r is awaiting: [kind, source]
  returns,       \* returns[r]: what the tools returned to the router in its current run
  output,        \* output[r]: result.output
  verdicts,      \* verdicts[r]: the verifier outputs of r, in order
  note_id,       \* note_id[r]: what anki.add_flashcard returned
  report,        \* report[r]: what add_word logged as the outcome, or the exception raised
  writes         \* the AnkiConnect actions invoked by the calls not yet forgotten, in order

vars == <<tool_called, max_retries, store, pc, req, deps, message, attempt, calls,
          gen, returns, output, verdicts, note_id, report, writes>>

\* ---------------------------------------------------------------- strings
\* "sub in s"
Contains(s, sub) ==
  \E text \in {s} :
    \E i \in 1..(Len(text) - Len(sub) + 1) : SubSeq(text, i, i + Len(sub) - 1) = sub

LowerChar(c) ==
  CASE c = "A" -> "a" [] c = "B" -> "b" [] c = "C" -> "c" [] c = "D" -> "d"
    [] c = "E" -> "e" [] c = "F" -> "f" [] c = "G" -> "g" [] c = "H" -> "h"
    [] c = "I" -> "i" [] c = "J" -> "j" [] c = "K" -> "k" [] c = "L" -> "l"
    [] c = "M" -> "m" [] c = "N" -> "n" [] c = "O" -> "o" [] c = "P" -> "p"
    [] c = "Q" -> "q" [] c = "R" -> "r" [] c = "S" -> "s" [] c = "T" -> "t"
    [] c = "U" -> "u" [] c = "V" -> "v" [] c = "W" -> "w" [] c = "X" -> "x"
    [] c = "Y" -> "y" [] c = "Z" -> "z" [] OTHER -> c

\* (mutant) the text is compared as it is
LowerIdentity(s) == s

\* the characters a..b of s, lower-cased one by one (by halves, which keeps
\* the evaluation shallow for the long messages)
RECURSIVE LowerRange(_, _, _)
LowerRange(s, a, b) ==
  IF a > b THEN ""
  ELSE IF a = b THEN LowerChar(SubSeq(s, a, a))
  ELSE LET halves[m \in {(a + b) \div 2}] ==
             LowerRange(s, a, m) \o LowerRange(s, m + 1, b)
       IN halves[(a + b) \div 2]

\* str.lower()
Lower(s) == LowerRange(s, 1, Len(s))

\* "\n".join(lines)
RECURSIVE JoinLines(_)
JoinLines(lines) ==
  IF Len(lines) = 0 THEN ""
  ELSE IF Len(lines) = 1 THEN lines[1]
  ELSE lines[1] \o "\n" \o JoinLines(Tail(lines))

\* An Optional[str] field is <<>> (None) or <<s>>; bool(value) of it.
None == <<>>
Some(s) == <<s>>
\* (mutant) only None counts as unset
TruthyNotNone(v) == v # None
Truthy(v) == v # None /\ v[1] # ""

\* ------------------------------------------------------------- card schema
\* model.py: the five card classes; what a sub-agent returns for a source,
\* with its optional fields all set (full) or all None.
MkNounCard(source) ==
  [kind |-> "noun", translation |-> "tr-" \o source, article |-> "en",
   plural |-> "pl-" \o source, definite_sg |-> "dsg-" \o source,
   definite_pl |-> "dpl-" \o source, sample |-> "s-" \o source]

MkAdjCard(source, full) ==
  [kind |-> "adjective", translation |-> "tr-" \o source, positive |-> "pos-" \o source,
   comparative |-> IF full THEN Some("cmp-" \o source) ELSE None,
   superlative |-> IF full THEN Some("sup-" \o source) ELSE None,
   sample |-> "s-" \o source]

MkVerbCard(source) ==
  [kind |-> "verb", translation |-> "tr-" \o source, infinitive |-> "inf-" \o source,
   present |-> "prs-" \o source, past |-> "pst-" \o source, supine |-> "spn-" \o source,
   imperative |-> "imp-" \o source, sample_present |-> "s1-" \o source,
   sample_past |-> "s2-" \o source, sample_supine |-> "s3-" \o source,
   sample_imperative |-> "s4-" \o source]

MkPhraseCard(source, full) ==
  [kind |-> "phrase", text_sv |-> source, translation |-> "tr-" \o source,
   pattern |-> IF full THEN Some("pat-" \o source) ELSE None, sample |-> "s-" \o source]

MkFallbackCard(source, full) ==
  [kind |-> "fallback", source |-> source,
   translation |-> IF full THEN Some("tr-" \o source) ELSE None,
   sample |-> IF full THEN Some("s-" \o source) ELSE None,
   notes |-> IF full THEN Some("n-" \o source) ELSE None]

MkCard(kind, source, full) ==
  CASE kind = "noun" -> MkNounCard(source)
    [] kind = "adjective" -> MkAdjCard(source, full)
    [] kind = "verb" -> MkVerbCard(source)
    [] kind = "phrase" -> MkPhraseCard(source, full)
    [] kind = "fallback" -> MkFallbackCard(source, full)

\* RouterFailure(explanation=...)
RouterFailure(explanation) == [kind |-> "RouterFailure", explanation |-> explanation]

\* A value that is a plain str (the sentinel a blocked tool returns), and the
\* absence of a value; "kind" stands for type(v).__name__.
StrValue(text) == [kind |-> "str", text |-> text]
NoOutput == [kind |-> NoValue]

\* isinstance(output, FlashcardType) / isinstance(output, RouterFailure)
IsFlashcard(v) == v.kind \in Kinds
IsRouterFailure(v) == v.kind = "RouterFailure"

\* ------------------------------------------------------- card store client
\* What urlopen + json.load give invoke: a transport failure, undecodable JSON,
\* or a decoded object with some of the keys "result" and "error".
Transport == [t |-> "transport"]
BadJson == [t |-> "badjson"]
Envelope(keys, result, error) == [t |-> "json", keys |-> keys, result |-> result, error |-> error]
Ok(result) == Envelope({"result", "error"}, result, None)
Err(text) == Envelope({"result", "error"}, 0, Some(text))

ConnectMsg ==
  "Cannot connect to AnkiConnect at http://127.0.0.1:8765. Is Anki running and AnkiConnect enabled?"
BadJsonMsg == "Invalid JSON response from AnkiConnect"
InvalidMsg == "Invalid AnkiConnect response"

Raised(msg) == [raised |-> TRUE, msg |-> msg, value |-> 0]
Returned(value) == [raised |-> FALSE, msg |-> "", value |-> value]

\* (mutant) the envelope's keys and error are not looked at
InvokeUnchecked(resp) ==
  IF resp.t = "transport" THEN Raised(ConnectMsg)
  ELSE IF resp.t = "badjson" THEN Raised(BadJsonMsg)
  ELSE Returned(resp.result)

\* invoke: the RuntimeError it raises (with str(e)) or the result it returns
Invoke(resp) ==
  IF resp.t = "transport" THEN Raised(ConnectMsg)
  ELSE IF resp.t = "badjson" THEN Raised(BadJsonMsg)
  ELSE IF ~("error" \in resp.keys) \/ ~("result" \in resp.keys) THEN Raised(InvalidMsg)
  ELSE IF resp.error # None THEN Raised(resp.error[1])
  ELSE Returned(resp.result)

\* (mutant) the tags are dropped from the note
BasicNoteUntagged(deck_name, front, back, tags) ==
  [deckName |-> deck_name,
   modelName |-> "Basic",
   fields |-> [Front |-> front, Back |-> back],
   options |-> [allowDuplicate |-> FALSE,
                duplicateScope |-> "deck",
                duplicateScopeOptions |->
                  [deckName |-> deck_name, checkChildren |-> FALSE, checkAllModels |-> FALSE]],
   tags |-> <<>>]

\* (mutant) the note asks the store to allow duplicates
BasicNoteAllowDuplicate(deck_name, front, back, tags) ==
  [deckName |-> deck_name,
   modelName |-> "Basic",
   fields |-> [Front |-> front, Back |-> back],
   options |-> [allowDuplicate |-> TRUE,
                duplicateScope |-> "deck",
                duplicateScopeOptions |->
                  [deckName |-> deck_name, checkChildren |-> FALSE, checkAllModels |-> FALSE]],
   tags |-> tags]

\* (mutant) the note goes to the deck "Default", not to the deck it was given
BasicNoteDefaultDeck(deck_name, front, back, tags) ==
  [deckName |-> "Default",
   modelName |-> "Basic",
   fields |-> [Front |-> front, Back |-> back],
   options |-> [allowDuplicate |-> FALSE,
                duplicateScope |-> "deck",
                duplicateScopeOptions |->
                  [deckName |-> "Default", checkChildren |-> FALSE, checkAllModels |-> FALSE]],
   tags |-> tags]

\* the note add_basic_note submits
BasicNote(deck_name, front, back, tags) ==
  [deckName |-> deck_name,
   modelName |-> "Basic",
   fields |-> [Front |-> front, Back |-> back],
   options |-> [allowDuplicate |-> FALSE,
                duplicateScope |-> "deck",
                duplicateScopeOptions |->
                  [deckName |-> deck_name, checkChildren |-> FALSE, checkAllModels |-> FALSE]],
   tags |-> tags]

\* (mutant) a duplicate is not told from the other errors
AddBasicNoteResultNoDuplicate(inv) ==
  IF ~inv.raised THEN inv.value ELSE WRITE_ERROR

\* add_basic_note's return, given what invoke("addNote", note=note) did
AddBasicNoteResult(inv) ==
  IF ~inv.raised THEN inv.value
  ELSE IF Contains(Lower(inv.msg), "duplicate") THEN DUPLICATE_NOTE
  ELSE WRITE_ERROR

add_basic_note(resp) == AddBasicNoteResult(Invoke(resp))

\* The per-variant renderers: front, back and tags of the note.
NounBack(data) ==
  "Translation: " \o data.translation \o "\n"
    \o "Article: " \o data.article \o "\n"
    \o "Plural: " \o data.plural \o "\n"
    \o "Definite: " \o data.definite_sg \o " (sg), " \o data.definite_pl \o " (pl)\n"
    \o "Sample: " \o data.sample

AdjBack(data) ==
  JoinLines(<<"Translation: " \o data.translation, "Positive: " \o data.positive>>
            \o (IF Truthy(data.comparative)
                  THEN <<"Comparative: " \o data.comparative[1]>> ELSE <<>>)
            \o (IF Truthy(data.superlative)
                  THEN <<"Superlative: " \o data.superlative[1]>> ELSE <<>>)
            \o <<"Sample: " \o data.sample>>)

VerbBack(data) ==
  "Translation: " \o data.translation \o "\n"
    \o "Forms:\n"
    \o "- Infinitive: " \o data.infinitive \o "\n"
    \o "- Present: " \o data.present \o " - " \o data.sample_present \o "\n"
    \o "- Past: " \o data.past \o " - " \o data.sample_past \o "\n"
    \o "- Supine: " \o data.supine \o " - " \o data.sample_supine \o "\n"
    \o "- Imperative: " \o data.imperative \o " - " \o data.sample_imperative

PhraseBack(data) ==
  JoinLines(<<"Phrase: " \o data.text_sv, "Translation: " \o data.translation>>
            \o (IF Truthy(data.pattern) THEN <<"Pattern: " \o data.pattern[1]>> ELSE <<>>)
            \o <<"Sample: " \o data.sample>>)

FallbackBack(data) ==
  JoinLines(<<"Source: " \o data.source>>
            \o (IF Truthy(data.translation)
                  THEN <<"Translation: " \o data.translation[1]>> ELSE <<>>)
            \o (IF Truthy(data.sample) THEN <<"Sample: " \o data.sample[1]>> ELSE <<>>)
            \o (IF Truthy(data.notes) THEN <<"Notes: " \o data.notes[1]>> ELSE <<>>))

\* add_flashcard: the note it submits through add_basic_note for a card of the
\* five classes (any other type raises TypeError before any submission)
add_flashcard(deck_name, source_word, data, tags) ==
  CASE data.kind = "noun" ->
         BasicNote(deck_name, source_word, NounBack(data), tags \o <<"ai", "noun">>)
    [] data.kind = "adjective" ->
         BasicNote(deck_name, source_word, AdjBack(data), tags \o <<"ai", "adjective">>)
    [] data.kind = "verb" ->
         BasicNote(deck_name, source_word \o " (verb)", VerbBack(data), tags \o <<"ai", "verb">>)
    [] data.kind = "phrase" ->
         BasicNote(deck_name, source_word, PhraseBack(data), tags \o <<"ai", "phrase">>)
    [] data.kind = "fallback" ->
         BasicNote(deck_name, source_word, FallbackBack(data), tags \o <<"ai", "fallback">>)

\* ---------------------------------------------------------- the card store
\* AnkiConnect's addNote under the note's options: with allowDuplicate false a
\* note with the same fields is refused, within the deck named by
\* duplicateScopeOptions when duplicateScope is "deck", else in any deck.
IsDuplicate(st, note) ==
  /\ ~note.options.allowDuplicate
  /\ \E n \in st :
       /\ n.front = note.fields.Front
       /\ n.back = note.fields.Back
       /\ note.options.duplicateScope = "deck"
            => n.deck = note.options.duplicateScopeOptions.deckName

DuplicateError == "cannot create note because it is a duplicate"
NewId(st) == Cardinality(st) + 1

\* the store's own answer to addNote
StoreAnswer(st, note) ==
  IF IsDuplicate(st, note) THEN Err(DuplicateError) ELSE Ok(NewId(st))

\* answers of a failing backend or transport
Failures ==
  {Transport, BadJson, Envelope({"result"}, 0, None), Err("deck was not found: test")}

\* what urlopen can give for an addNote: the store's answer, or a failure
Responses(st, note, failures) == {StoreAnswer(st, note)} \cup failures

\* the store after it gave resp: only an answer with a result created a note
StoreAfter(st, note, resp) ==
  IF resp = StoreAnswer(st, note) /\ resp.error = None
    THEN st \cup {[deck |-> note.deckName, front |-> note.fields.Front,
                   back |-> note.fields.Back, id |-> resp.result]}
    ELSE st

\* ------------------------------------------------------------ shared steps
\* The inputs a specification draws from: the arguments of add_word, the tools
\* and source texts the classifier picks, whether the sub-agent sets the
\* optional fields, and how the backend can fail.
Inputs(words, decks, kinds, sources, fulls, failures) ==
  [words |-> words, decks |-> decks, langs |-> {"Swedish"}, kinds |-> kinds,
   sources |-> sources, fulls |-> fulls, failures |-> failures]

NoReq == [word |-> "", deck |-> "", target_lang |-> ""]
NoDeps == [deck |-> "", target_lang |-> ""]
NoGen == [kind |-> NoValue, source |-> ""]
NoId == 0

\* f"Word: {word}\nTarget language: {target_lang}"
UserMessage(word, target_lang) ==
  "Word: " \o word \o "\nTarget language: " \o target_lang

InitRequests ==
  /\ tool_called = FALSE
  /\ store = {}
  /\ pc = [r \in Requests |-> "idle"]
  /\ req = [r \in Requests |-> NoReq]
  /\ deps = [r \in Requests |-> NoDeps]
  /\ message = [r \in Requests |-> ""]
  /\ attempt = [r \in Requests |-> 0]
  /\ calls = [r \in Requests |-> <<>>]
  /\ gen = [r \in Requests |-> NoGen]
  /\ returns = [r \in Requests |-> {}]
  /\ output = [r \in Requests |-> NoOutput]
  /\ verdicts = [r \in Requests |-> <<>>]
  /\ note_id = [r \in Requests |-> NoId]
  /\ report = [r \in Requests |-> NoValue]
  /\ writes = <<>>

\* a call of add_word that has ended: returned, or left by an exception
Ended(q) == pc[q] \in {"done", "raised"}

\* A new call of add_word by request r: its locals deps and user_message are
\* set and its other locals are fresh; the locals of the calls that have
\* ended are gone, and so is what was recorded of them.
NewCall(r, w, d, l, first_attempt, first_report) ==
  LET Keep(q) == q # r /\ ~Ended(q) IN
  /\ req' = [q \in Requests |->
               IF q = r THEN [word |-> w, deck |-> d, target_lang |-> l]
               ELSE IF Keep(q) THEN req[q] ELSE NoReq]
  /\ deps' = [q \in Requests |->
                IF q = r THEN [deck |-> d, target_lang |-> l]
                ELSE IF Keep(q) THEN deps[q] ELSE NoDeps]
  /\ message' = [q \in Requests |->
                   IF q = r THEN UserMessage(w, l)
                   ELSE IF Keep(q) THEN message[q] ELSE ""]
  /\ attempt' = [q \in Requests |->
                   IF q = r THEN first_attempt ELSE IF Keep(q) THEN attempt[q] ELSE 0]
  /\ calls' = [q \in Requests |-> IF Keep(q) THEN calls[q] ELSE <<>>]
  /\ returns' = [q \in Requests |-> IF Keep(q) THEN returns[q] ELSE {}]
  /\ output' = [q \in Requests |-> IF Keep(q) THEN output[q] ELSE NoOutput]
  /\ verdicts' = [q \in Requests |-> IF Keep(q) THEN verdicts[q] ELSE <<>>]
  /\ note_id' = [q \in Requests |-> IF Keep(q) THEN note_id[q] ELSE NoId]
  /\ report' = [q \in Requests |->
                  IF q = r THEN first_report ELSE IF Keep(q) THEN report[q] ELSE NoValue]
  /\ writes' = SelectSeq(writes, LAMBDA e : Keep(e.r))
  /\ UNCHANGED <<gen, store>>

\* The body of a make_*_card tool once it runs its generator: it awaits the
\* sub-agent's run.
RunGenerator(r, kind, source) ==
  /\ gen' = [gen EXCEPT ![r] = [kind |-> kind, source |-> source]]
  /\ calls' = [calls EXCEPT ![r] =
                 Append(@, [ran |-> TRUE, ret |-> Running, source |-> source,
                            kind |-> kind])]
  /\ pc' = [pc EXCEPT ![r] = "generating"]

\* return result.output: the sub-agent produced its card and the tool returns it
GeneratorReturns(r, in) ==
  /\ pc[r] = "generating"
  /\ \E full \in in.fulls :
       returns' = [returns EXCEPT ![r] = @ \cup {MkCard(gen[r].kind, gen[r].source, full)}]
  /\ calls' = [calls EXCEPT ![r][Len(calls[r])].ret = "card"]
  /\ gen' = [gen EXCEPT ![r] = NoGen]
  /\ pc' = [pc EXCEPT ![r] = "router"]
  /\ UNCHANGED <<tool_called, max_retries, store, req, deps, message, attempt, output,
                 verdicts, note_id, report, writes>>

\* The sub-agent's run raises: nothing catches it in the tool, in the router's
\* run or in add_word, so it leaves add_word.
GeneratorRaises(r) ==
  /\ pc[r] = "generating"
  /\ calls' = [calls EXCEPT ![r][Len(calls[r])].ret = "raised"]
  /\ gen' = [gen EXCEPT ![r] = NoGen]
  /\ pc' = [pc EXCEPT ![r] = "raised"]
  /\ report' = [report EXCEPT ![r] = "exception: generator"]
  /\ UNCHANGED <<tool_called, max_retries, store, req, deps, message, attempt, returns,
                 output, verdicts, note_id, writes>>

\* (mutant) the run may end with any value a tool returned, the sentinel of a
\* blocked call included, though a generator produced a card
RouterOutputsAny(r) == returns[r] \cup {RouterFailure("cannot classify")}

\* What the router's run can end with (output_type: the five tools as output
\* functions, and RouterFailure): the card an output function returned; with
\* no card, the sentinel a blocked tool returned or a RouterFailure the
\* classifier produced itself.
RouterOutputs(r) ==
  LET cards == {v \in returns[r] : IsFlashcard(v)} IN
  IF cards # {} THEN cards ELSE returns[r] \cup {RouterFailure("cannot classify")}

\* The classifier's own call fails (error, timeout): the run raises.
RouterRaises(r) ==
  /\ pc[r] = "router"
  /\ pc' = [pc EXCEPT ![r] = "raised"]
  /\ report' = [report EXCEPT ![r] = "exception: router"]
  /\ UNCHANGED <<tool_called, max_retries, store, req, deps, message, attempt, calls, gen,
                 returns, output, verdicts, note_id, writes>>

\* What add_word logs for the identifier add_flashcard returned.
LogNote(id) == IF id = DUPLICATE_NOTE THEN "duplicate" ELSE "note created"

\* (mutant) the card is submitted a second time
PostCardTwice(r, note, in) ==
  \E resp \in Responses(store, note, in.failures) :
    LET id == add_basic_note(resp)
        entry == [r |-> r, action |-> "addNote", note |-> note, resp |-> resp, ret |-> id]
    IN /\ store' = StoreAfter(store, note, resp)
       /\ writes' = Append(Append(writes, entry), entry)
       /\ note_id' = [note_id EXCEPT ![r] = id]
       /\ report' = [report EXCEPT ![r] = LogNote(id)]

\* anki.add_flashcard(deck, word, output) and the log line for its return:
\* the note goes to the store, whose answer add_basic_note maps to an identifier.
PostCard(r, note, in) ==
  \E sent \in {note} :
    \E resp \in Responses(store, sent, in.failures) :
      \E id \in {add_basic_note(resp)} :
        /\ store' = StoreAfter(store, sent, resp)
        /\ writes' = Append(writes, [r |-> r, action |-> "addNote", note |-> sent,
                                     resp |-> resp, ret |-> id])
        /\ note_id' = [note_id EXCEPT ![r] = id]
        /\ report' = [report EXCEPT ![r] = LogNote(id)]

\* (mutant) the output is posted without looking at its type: a RouterFailure
\* is written as a note of its explanation
PostOutputUnchecked(r, in) ==
  /\ pc[r] = "post"
  /\ IF output[r].kind = "str"
       THEN /\ report' = [report EXCEPT ![r] = "unexpected output"]
            /\ UNCHANGED <<store, writes, note_id>>
       ELSE PostCard(r, IF IsFlashcard(output[r])
                          THEN add_flashcard(req[r].deck, req[r].word, output[r], <<>>)
                          ELSE BasicNote(req[r].deck, req[r].word, output[r].explanation,
                                         <<"ai">>),
                     in)
  /\ pc' = [pc EXCEPT ![r] = "done"]
  /\ UNCHANGED <<tool_called, max_retries, req, deps, message, attempt, calls, gen, returns,
                 output, verdicts>>

\* add_word after the router's run: post the card, or log the failure; then
\* return result.all_messages.
PostOutput(r, in) ==
  /\ pc[r] = "post"
  /\ IF IsFlashcard(output[r])
       THEN PostCard(r, add_flashcard(req[r].deck, req[r].word, output[r], <<>>), in)
       ELSE /\ report' = [report EXCEPT ![r] =
                            IF IsRouterFailure(output[r]) THEN "RouterFailure"
                            ELSE "unexpected output"]
            /\ UNCHANGED <<store, writes, note_id>>
  /\ pc' = [pc EXCEPT ![r] = "done"]
  /\ UNCHANGED <<tool_called, max_retries, req, deps, message, attempt, calls, gen, returns,
                 output, verdicts>>

\* --------------------------------------------------- AnkiAgent (agent.py)
\* (mutant) add_word_async leaves the guard as the request before left it
AgentAddWordNoReset(r, in) ==
  /\ pc[r] = "idle"
  /\ \E w \in in.words, d \in in.decks, l \in in.langs : NewCall(r, w, d, l, 1, NoValue)
  /\ pc' = [pc EXCEPT ![r] = "router"]
  /\ UNCHANGED <<tool_called, max_retries>>

\* add_word_async up to its await of the router: the guard is cleared.
AgentAddWord(r, in) ==
  /\ pc[r] = "idle"
  /\ \E w \in in.words, d \in in.decks, l \in in.langs : NewCall(r, w, d, l, 1, NoValue)
  /\ tool_called' = FALSE
  /\ pc' = [pc EXCEPT ![r] = "router"]
  /\ UNCHANGED max_retries

\* (mutant) the tool runs its generator without looking at the guard
make_card_unguarded(r, kind, source) ==
  /\ tool_called' = TRUE
  /\ RunGenerator(r, kind, source)
  /\ UNCHANGED returns

\* make_noun_card .. make_fallback_card: the duplicate-call guard, then the generator
make_card(r, kind, source) ==
  IF tool_called
    THEN /\ calls' = [calls EXCEPT ![r] =
                        Append(@, [ran |-> FALSE, ret |-> Sentinel, source |-> "",
                                   kind |-> NoValue])]
         /\ returns' = [returns EXCEPT ![r] = @ \cup {StrValue(Sentinel)}]
         /\ UNCHANGED <<tool_called, gen, pc>>
    ELSE /\ tool_called' = TRUE
         /\ RunGenerator(r, kind, source)
         /\ UNCHANGED returns

\* the classifier invokes one of the five tools
AgentTool(r, in) ==
  /\ pc[r] = "router"
  /\ Len(calls[r]) < MaxCalls
  /\ \E kind \in in.kinds, source \in in.sources : make_card(r, kind, source)
  /\ UNCHANGED <<max_retries, store, req, deps, message, attempt, output, verdicts,
                 note_id, report, writes>>

\* self.agent.run returns: result.output
AgentRouterReturns(r) ==
  /\ pc[r] = "router"
  /\ \E out \in RouterOutputs(r) : output' = [output EXCEPT ![r] = out]
  /\ pc' = [pc EXCEPT ![r] = "post"]
  /\ UNCHANGED <<tool_called, max_retries, store, req, deps, message, attempt, calls, gen,
                 returns, verdicts, note_id, report, writes>>

AgentStep(r, in) ==
  \/ AgentTool(r, in)
  \/ GeneratorReturns(r, in)
  \/ GeneratorRaises(r)
  \/ AgentRouterReturns(r)
  \/ RouterRaises(r)
  \/ PostOutput(r, in)

\* no request is between the start and the end of add_word
NoneActive == \A q \in Requests : pc[q] = "idle" \/ Ended(q)

InitAgent == InitRequests /\ max_retries = 0

\* Requests issued one after the other on one AnkiAgent.
SeqInputs == Inputs({"hund", "ata"}, {"DemoDeck"}, Kinds, {"hund", "ata"}, {TRUE}, {Transport})

NextAgentSeq ==
  \E r \in Requests :
    \/ NoneActive /\ (\A q \in 1..(r - 1) : Ended(q)) /\ AgentAddWord(r, SeqInputs)
    \/ AgentStep(r, SeqInputs)

SpecAgentSeq == InitAgent /\ [][NextAgentSeq]_vars

\* Requests issued concurrently (asyncio tasks) on one AnkiAgent: they
\* interleave at the awaits.
ConcInputs == Inputs({"hund"}, {"DemoDeck"}, Kinds, {"hund"}, {TRUE}, {Transport})

NextAgent ==
  \E r \in Requests :
    \/ AgentAddWord(r, ConcInputs)
    \/ AgentStep(r, ConcInputs)

SpecAgent == InitAgent /\ [][NextAgent]_vars

\* the two requests of a pair of asyncio tasks running at once
Tasks == {1, 2}

\* Two add_word_async tasks running at once on one AnkiAgent, for the same word
\* and deck.
PairInputs == Inputs({"hund"}, {"DemoDeck"}, {"noun", "verb"}, {"hund"}, {TRUE}, {Transport})

NextAgentPair ==
  \E r \in Tasks :
    \/ AgentAddWord(r, PairInputs)
    \/ AgentStep(r, PairInputs)

SpecAgentPair == InitAgent /\ [][NextAgentPair]_vars

\* ------------------------------ add_word and add_word_async of AnkiAgent
\* One AnkiAgent is called twice under one script of its environment: first
\* add_word_async, then add_word with the same arguments. What the classifier,
\* the generators and the store did in the first call is the script the
\* second call meets again: the same tool invocations in the same order, the
\* same generator outcomes, the run ending at the same point, the same answer
\* of the store.
AsyncCall == 1
SyncCall == 2

\* the store is part of the script: its answer is one of these whatever it holds
ModeInputs ==
  Inputs({"hund"}, {"DemoDeck"}, {"noun", "verb"}, {"hund", "ata"}, {TRUE},
         {Transport, Ok(1), Err(DuplicateError)})

\* the script's tool invocation that the next invocation of add_word repeats
Scripted == calls[AsyncCall][Len(calls[SyncCall]) + 1]
\* the script's tool invocation whose generator add_word is awaiting
ScriptedRunning == calls[AsyncCall][Len(calls[SyncCall])]
\* the script's tool invocations have all been repeated
ScriptDone == Len(calls[SyncCall]) = Len(calls[AsyncCall])

\* (mutant) add_word does not clear the guard
SyncAddWordNoReset ==
  /\ pc[SyncCall] = "idle"
  /\ Ended(AsyncCall)
  /\ req' = [req EXCEPT ![SyncCall] = req[AsyncCall]]
  /\ deps' = [deps EXCEPT ![SyncCall] =
                 [deck |-> req[AsyncCall].deck, target_lang |-> req[AsyncCall].target_lang]]
  /\ message' = [message EXCEPT ![SyncCall] =
                    UserMessage(req[AsyncCall].word, req[AsyncCall].target_lang)]
  /\ attempt' = [attempt EXCEPT ![SyncCall] = 1]
  /\ pc' = [pc EXCEPT ![SyncCall] = "router"]
  /\ UNCHANGED <<tool_called, max_retries, store, calls, gen, returns, output, verdicts,
                 note_id, report, writes>>

\* add_word up to self.agent.run_sync: the guard is cleared, deps and
\* user_message are built from the arguments (those of the first call)
SyncAddWord ==
  /\ pc[SyncCall] = "idle"
  /\ Ended(AsyncCall)
  /\ tool_called' = FALSE
  /\ req' = [req EXCEPT ![SyncCall] = req[AsyncCall]]
  /\ deps' = [deps EXCEPT ![SyncCall] =
                 [deck |-> req[AsyncCall].deck, target_lang |-> req[AsyncCall].target_lang]]
  /\ message' = [message EXCEPT ![SyncCall] =
                    UserMessage(req[AsyncCall].word, req[AsyncCall].target_lang)]
  /\ attempt' = [attempt EXCEPT ![SyncCall] = 1]
  /\ pc' = [pc EXCEPT ![SyncCall] = "router"]
  /\ UNCHANGED <<max_retries, store, calls, gen, returns, output, verdicts, note_id, report,
                 writes>>

\* inside run_sync the classifier invokes the script's next tool; the
\* arguments of an invocation the script's guard ignored are any
SyncTool(in) ==
  /\ pc[SyncCall] = "router"
  /\ ~ScriptDone
  /\ IF Scripted.ran
       THEN make_card(SyncCall, Scripted.kind, Scripted.source)
       ELSE \E kind \in in.kinds, source \in in.sources : make_card(SyncCall, kind, source)
  /\ UNCHANGED <<max_retries, store, req, deps, message, attempt, output, verdicts,
                 note_id, report, writes>>

\* the generator returns its card, as the script's did if it ran
SyncGeneratorReturns(in) ==
  /\ pc[SyncCall] = "generating"
  /\ ScriptedRunning.ran => ScriptedRunning.ret = "card"
  /\ GeneratorReturns(SyncCall, in)

\* the generator raises, as the script's did if it ran
SyncGeneratorRaises ==
  /\ pc[SyncCall] = "generating"
  /\ ScriptedRunning.ran => ScriptedRunning.ret = "raised"
  /\ GeneratorRaises(SyncCall)

\* run_sync returns result: the run ends where the script's ended, with the
\* script's output when this run can end with it
SyncRouterReturns ==
  /\ pc[SyncCall] = "router"
  /\ ScriptDone
  /\ pc[AsyncCall] = "done"
  /\ \E out \in RouterOutputs(SyncCall) :
       /\ output[AsyncCall] \in RouterOutputs(SyncCall) => out = output[AsyncCall]
       /\ output' = [output EXCEPT ![SyncCall] = out]
  /\ pc' = [pc EXCEPT ![SyncCall] = "post"]
  /\ UNCHANGED <<tool_called, max_retries, store, req, deps, message, attempt, calls, gen,
                 returns, verdicts, note_id, report, writes>>

\* the classifier's own call fails where the script's did: run_sync raises
SyncRouterRaises ==
  /\ pc[SyncCall] = "router"
  /\ ScriptDone
  /\ pc[AsyncCall] = "raised"
  /\ calls[AsyncCall] # <<>> => calls[AsyncCall][Len(calls[AsyncCall])].ret # "raised"
  /\ RouterRaises(SyncCall)

\* add_word after run_sync: post the card, the store answering as in the
\* script, or log the failure; then return result.all_messages
SyncPostOutput(in) ==
  /\ pc[SyncCall] = "post"
  /\ IF IsFlashcard(output[SyncCall])
       THEN /\ PostCard(SyncCall,
                        add_flashcard(req[SyncCall].deck, req[SyncCall].word, output[SyncCall],
                                      <<>>),
                        in)
            /\ \A i \in DOMAIN writes :
                 writes[i].r = AsyncCall => writes'[Len(writes')].resp = writes[i].resp
       ELSE /\ report' = [report EXCEPT ![SyncCall] =
                            IF IsRouterFailure(output[SyncCall]) THEN "RouterFailure"
                            ELSE "unexpected output"]
            /\ UNCHANGED <<store, writes, note_id>>
  /\ pc' = [pc EXCEPT ![SyncCall] = "done"]
  /\ UNCHANGED <<tool_called, max_retries, req, deps, message, attempt, calls, gen, returns,
                 output, verdicts>>

SyncStep(in) ==
  \/ SyncTool(in)
  \/ SyncGeneratorReturns(in)
  \/ SyncGeneratorRaises
  \/ SyncRouterReturns
  \/ SyncRouterRaises
  \/ SyncPostOutput(in)

NextModes ==
  \/ AgentAddWord(AsyncCall, ModeInputs)
  \/ AgentStep(AsyncCall, ModeInputs)
  \/ SyncAddWord
  \/ SyncStep(ModeInputs)

SpecModes == InitAgent /\ [][NextModes]_vars

\* ------------- AnkiAgentOrchestrator + VerifyingAgent (the verified pipeline)
\* VerificationOutput(approved, uncertain, reason), and an output of another type
VerificationOutput(approved, uncertain, reason) ==
  [kind |-> "VerificationOutput", approved |-> approved, uncertain |-> uncertain,
   reason |-> reason]
Verdicts ==
  {VerificationOutput(a, u, reason) : a \in BOOLEAN, u \in BOOLEAN, reason \in Reasons}
\* an object of another type, though with a verdict's attributes
Malformed ==
  [kind |-> "dict", approved |-> FALSE, uncertain |-> FALSE, reason |-> "not a verdict"]
VerifierOutputs == Verdicts \cup {Malformed}

\* (mutant) the verdict's type is not checked
IsAnyOutput(v) == TRUE

\* isinstance(approval_result.output, VerificationOutput)
IsVerificationOutput(v) == v.kind = "VerificationOutput"

\* (mutant) an uncertain verdict does not pass
PassesApprovedOnly(v) == v.approved

\* (mutant) every verdict passes
PassesAlways(v) == TRUE

\* verification_output.approved or verification_output.uncertain
Passes(v) == v.approved \/ v.uncertain

\* (mutant) range(self.max_retries + 1)
MoreAttemptsOffByOne(r) == attempt[r] < max_retries + 1

\* (mutant) the iteration count is one counter of the VerifyingAgent, advanced
\* by every run in progress
MoreAttemptsShared(r) == \A q \in Requests : attempt[q] < max_retries

\* for _attempt in range(self.max_retries): there is another iteration
MoreAttempts(r) == attempt[r] < max_retries

\* RouterFailure(explanation=f"Verification failed after {self.max_retries} retries")
Exhausted(n) == RouterFailure("Verification failed after " \o ToString(n) \o " retries")

\* add_word_async up to the first await of VerifyingAgent.run: with no
\* iteration to run, line 57 reads the unbound local result.
OrchAddWord(r, in) ==
  /\ pc[r] = "idle"
  /\ \E w \in in.words, d \in in.decks, l \in in.langs :
       IF max_retries > 0
         THEN NewCall(r, w, d, l, 1, NoValue)
         ELSE NewCall(r, w, d, l, 0, "exception: UnboundLocalError")
  /\ pc' = [pc EXCEPT ![r] = IF max_retries > 0 THEN "router" ELSE "raised"]
  /\ UNCHANGED <<tool_called, max_retries>>

\* the prompt of the k-th router attempt: the user message and the feedback of
\* the rejections before it
RECURSIVE Prompt(_, _)
Prompt(r, k) ==
  IF k <= 1 THEN UserMessage(req[r].word, req[r].target_lang)
  ELSE Prompt(r, k - 1) \o "\nVerifier feedback: " \o verdicts[r][k - 1].reason

\* result.all_messages, which add_word returns: the contents of the messages of
\* the router run that produced result, all of them made before add_word looks
\* at result.output: the prompt, what the tools returned, and the run's output
\* (unknown once run has put the RouterFailure of exhausted retries in its place)
AllMessages(r) ==
  {StrValue(Prompt(r, attempt[r]))}
    \cup returns[r]
    \cup (IF output[r] \in {NoOutput, Exhausted(max_retries)} THEN {} ELSE {output[r]})

\* (mutant) the orchestrator's tools carry the guard of AnkiAgent's tools, which
\* VerifyingAgent.run never clears
orch_make_card_guarded(r, kind, source) == make_card(r, kind, source)

\* the orchestrator's make_noun_card .. make_fallback_card: the generator, unguarded
orch_make_card(r, kind, source) ==
  /\ RunGenerator(r, kind, source)
  /\ UNCHANGED <<tool_called, returns>>

\* the classifier invokes one of the five tools
OrchTool(r, in) ==
  /\ pc[r] = "router"
  /\ Len(calls[r]) < MaxCalls
  /\ \E kind \in in.kinds, source \in in.sources : orch_make_card(r, kind, source)
  /\ UNCHANGED <<max_retries, store, req, deps, message, attempt, output, verdicts,
                 note_id, report, writes>>

\* an output that is neither a card nor a RouterFailure: the case the else
\* branch of add_word_async logs as "Unexpected router output type"
Unexpected == StrValue("unexpected")

\* result = await self.agent.run(message, deps=deps), whose output run does not
\* inspect before the verifier sees it; the verifier is awaited next
OrchRouterReturns(r) ==
  /\ pc[r] = "router"
  /\ \E out \in RouterOutputs(r) \cup {Unexpected} : output' = [output EXCEPT ![r] = out]
  /\ pc' = [pc EXCEPT ![r] = "verify"]
  /\ UNCHANGED <<tool_called, max_retries, store, req, deps, message, attempt, calls, gen,
                 returns, verdicts, note_id, report, writes>>

\* (mutant) the feedback is put in front of the message
OnVerdictPrepends(r, v) ==
  /\ verdicts' = [verdicts EXCEPT ![r] = Append(@, v)]
  /\ IF IsVerificationOutput(v)
       THEN IF Passes(v)
              THEN /\ pc' = [pc EXCEPT ![r] = "post"]
                   /\ UNCHANGED <<message, attempt, calls, returns, output, report>>
              ELSE /\ message' = [message EXCEPT ![r] = "\nVerifier feedback: " \o v.reason \o @]
                   /\ IF MoreAttempts(r)
                        THEN /\ attempt' = [attempt EXCEPT ![r] = @ + 1]
                             /\ calls' = [calls EXCEPT ![r] = <<>>]
                             /\ returns' = [returns EXCEPT ![r] = {}]
                             /\ pc' = [pc EXCEPT ![r] = "router"]
                             /\ UNCHANGED output
                        ELSE /\ output' = [output EXCEPT ![r] = Exhausted(max_retries)]
                             /\ pc' = [pc EXCEPT ![r] = "post"]
                             /\ UNCHANGED <<attempt, calls, returns>>
                   /\ UNCHANGED report
       ELSE /\ pc' = [pc EXCEPT ![r] = "raised"]
            /\ report' = [report EXCEPT ![r] = "exception: invalid verifier output"]
            /\ UNCHANGED <<message, attempt, calls, returns, output>>

\* (mutant) a rejection starts the router again without counting the attempt
OnVerdictUncounted(r, v) ==
  IF IsVerificationOutput(v)
    THEN IF Passes(v)
           THEN /\ verdicts' = [verdicts EXCEPT ![r] = Append(@, v)]
                /\ pc' = [pc EXCEPT ![r] = "post"]
                /\ UNCHANGED <<message, attempt, calls, returns, output, report>>
           ELSE /\ calls' = [calls EXCEPT ![r] = <<>>]
                /\ returns' = [returns EXCEPT ![r] = {}]
                /\ pc' = [pc EXCEPT ![r] = "router"]
                /\ UNCHANGED <<verdicts, message, attempt, output, report>>
    ELSE /\ verdicts' = [verdicts EXCEPT ![r] = Append(@, v)]
         /\ pc' = [pc EXCEPT ![r] = "raised"]
         /\ report' = [report EXCEPT ![r] = "exception: invalid verifier output"]
         /\ UNCHANGED <<message, attempt, calls, returns, output>>

\* VerifyingAgent.run from the verifier's answer v to its next await, return or raise
OnVerdict(r, v) ==
  /\ verdicts' = [verdicts EXCEPT ![r] = Append(@, v)]
  /\ IF IsVerificationOutput(v)
       THEN IF Passes(v)
              THEN /\ pc' = [pc EXCEPT ![r] = "post"]
                   /\ UNCHANGED <<message, attempt, calls, returns, output, report>>
              ELSE /\ message' = [message EXCEPT ![r] = @ \o "\nVerifier feedback: " \o v.reason]
                   /\ IF MoreAttempts(r)
                        THEN /\ attempt' = [attempt EXCEPT ![r] = @ + 1]
                             /\ calls' = [calls EXCEPT ![r] = <<>>]
                             /\ returns' = [returns EXCEPT ![r] = {}]
                             /\ pc' = [pc EXCEPT ![r] = "router"]
                             /\ UNCHANGED output
                        ELSE /\ output' = [output EXCEPT ![r] = Exhausted(max_retries)]
                             /\ pc' = [pc EXCEPT ![r] = "post"]
                             /\ UNCHANGED <<attempt, calls, returns>>
                   /\ UNCHANGED report
       ELSE /\ pc' = [pc EXCEPT ![r] = "raised"]
            /\ report' = [report EXCEPT ![r] = "exception: invalid verifier output"]
            /\ UNCHANGED <<message, attempt, calls, returns, output>>

Verify(r) ==
  /\ pc[r] = "verify"
  /\ \E v \in VerifierOutputs : OnVerdict(r, v)
  /\ UNCHANGED <<tool_called, max_retries, store, req, deps, gen, note_id, writes>>

\* The verifier's own call fails: the run raises.
VerifierRaises(r) ==
  /\ pc[r] = "verify"
  /\ pc' = [pc EXCEPT ![r] = "raised"]
  /\ report' = [report EXCEPT ![r] = "exception: verifier"]
  /\ UNCHANGED <<tool_called, max_retries, store, req, deps, message, attempt, calls, gen,
                 returns, output, verdicts, note_id, writes>>

OrchStep(r, in) ==
  \/ OrchTool(r, in)
  \/ GeneratorReturns(r, in)
  \/ GeneratorRaises(r)
  \/ OrchRouterReturns(r)
  \/ RouterRaises(r)
  \/ Verify(r)
  \/ VerifierRaises(r)
  \/ PostOutput(r, in)

\* max_retries is any integer the constructor is given (default 3), 0 included
InitOrch == InitRequests /\ max_retries \in 0..MaxRetries

\* Requests issued one after the other on one AnkiAgentOrchestrator.
OrchInputs ==
  Inputs({"hund"}, {"test"}, {"noun", "verb"}, {"hund"}, {TRUE},
         {Transport, Err("deck was not found: test")})

Next ==
  \E r \in Requests :
    \/ NoneActive /\ (\A q \in 1..(r - 1) : Ended(q)) /\ OrchAddWord(r, OrchInputs)
    \/ OrchStep(r, OrchInputs)

Spec == InitOrch /\ [][Next]_vars

\* Two add_word_async tasks running at once on one AnkiAgentOrchestrator: they
\* interleave at the awaits of VerifyingAgent.run.
ConcOrchInputs == Inputs({"hund"}, {"test"}, {"noun"}, {"hund"}, {TRUE}, {})

InitOrchConc == InitRequests /\ max_retries \in 1..MaxRetriesConc

NextOrchConc ==
  \E r \in Tasks :
    \/ OrchAddWord(r, ConcOrchInputs)
    \/ OrchStep(r, ConcOrchInputs)

SpecOrchConc == InitOrchConc /\ [][NextOrchConc]_vars

\* Requests for different decks and target languages, one after the other on
\* one AnkiAgentOrchestrator.
DeckInputs ==
  [Inputs({"hund"}, {"test", "DemoDeck"}, {"noun"}, {"hund"}, {TRUE}, {})
     EXCEPT !.langs = {"Swedish", "svenska"}]

NextDecks ==
  \E r \in Requests :
    \/ NoneActive /\ (\A q \in 1..(r - 1) : Ended(q)) /\ OrchAddWord(r, DeckInputs)
    \/ OrchStep(r, DeckInputs)

SpecDecks == InitOrch /\ [][NextDecks]_vars

\* Two requests one after the other on one AnkiAgentOrchestrator whose external
\* calls all come back: a request that can take a step eventually takes one
\* (the classifier, a generator, the verifier or the store answers, or the
\* call raises).
LiveInputs == Inputs({"hund"}, {"test"}, {"noun"}, {"hund"}, {TRUE}, {Transport})

NextLive ==
  \E r \in Tasks :
    \/ NoneActive /\ (\A q \in 1..(r - 1) : Ended(q)) /\ OrchAddWord(r, LiveInputs)
    \/ OrchStep(r, LiveInputs)

SpecLive ==
  /\ InitOrch
  /\ [][NextLive]_vars
  /\ \A r \in Tasks : WF_vars(OrchStep(r, LiveInputs))

\* ------------------------------------- add_basic_note called on its own
\* Direct calls of anki.add_basic_note(deck, front, back, tags), one after the
\* other, as the tool of src/agent.py and the tests make them.
StoreInputs ==
  [decks |-> {"test", "DemoDeck"}, fronts |-> {"ata (verb)", "hund"},
   backs |-> {"eat", "dog"}, failures |-> {Transport, Err("deck was not found: test")}]

AddBasicNote(r) ==
  /\ pc[r] = "idle"
  /\ \E deck \in StoreInputs.decks, front \in StoreInputs.fronts, back \in StoreInputs.backs :
       LET note == BasicNote(deck, front, back, <<"ai">>) IN
       \E resp \in Responses(store, note, StoreInputs.failures) :
         LET id == add_basic_note(resp) IN
         /\ store' = StoreAfter(store, note, resp)
         /\ writes' = Append(writes, [r |-> r, action |-> "addNote", note |-> note, resp |-> resp,
                                 ret |-> id])
         /\ note_id' = [note_id EXCEPT ![r] = id]
  /\ pc' = [pc EXCEPT ![r] = "done"]
  /\ UNCHANGED <<tool_called, max_retries, req, deps, message, attempt, calls, gen, returns,
                 output, verdicts, report>>

NextStore == \E r \in Requests : AddBasicNote(r)

SpecStore == InitAgent /\ [][NextStore]_vars

\* ------------------------------------- add_flashcard called on its own
\* An Optional[str] field of a card: None, the empty string, or a text.
OptValues(text) == {None, Some(""), Some(text)}

\* The cards of the five classes for a source, with every combination of their
\* optional fields.
RenderCards(source) ==
  {MkNounCard(source), MkVerbCard(source)}
    \cup {[MkAdjCard(source, TRUE) EXCEPT !.comparative = c, !.superlative = s] :
            c \in OptValues("cmp-" \o source), s \in OptValues("sup-" \o source)}
    \cup {[MkPhraseCard(source, TRUE) EXCEPT !.pattern = p] : p \in OptValues("pat-" \o source)}
    \cup {[MkFallbackCard(source, TRUE) EXCEPT !.translation = t, !.sample = e, !.notes = n] :
            t \in OptValues("tr-" \o source), e \in OptValues("s-" \o source),
            n \in OptValues("n-" \o source)}

RenderInputs ==
  [decks |-> {"DemoDeck"}, words |-> {"hund"},
   tags |-> {<<>>, <<"mine">>}, failures |-> {Transport}]

\* A direct call anki.add_flashcard(deck_name, source_word, data, tags), as the
\* pipelines and the tests make it; what the earlier calls left is forgotten
\* and the backend creates the note or cannot be reached.
AddFlashcard(r) ==
  /\ pc[r] = "idle"
  /\ \A q \in 1..(r - 1) : Ended(q)
  /\ \E deck \in RenderInputs.decks, word \in RenderInputs.words, tags \in RenderInputs.tags :
       \E data \in RenderCards(word) :
         LET note == add_flashcard(deck, word, data, tags) IN
         \E resp \in {Ok(NewId(store))} \cup RenderInputs.failures :
           LET id == add_basic_note(resp) IN
           /\ req' = [q \in Requests |->
                        IF q = r THEN [word |-> word, deck |-> deck, target_lang |-> "",
                                       tags |-> tags]
                        ELSE NoReq]
           /\ output' = [q \in Requests |-> IF q = r THEN data ELSE NoOutput]
           /\ note_id' = [q \in Requests |-> IF q = r THEN id ELSE NoId]
           /\ writes' = <<[r |-> r, action |-> "addNote", note |-> note, resp |-> resp,
                           ret |-> id]>>
  /\ pc' = [pc EXCEPT ![r] = "done"]
  /\ UNCHANGED <<tool_called, max_retries, store, deps, message, attempt, calls, gen, returns,
                 verdicts, report>>

NextRender == \E r \in Requests : AddFlashcard(r)

SpecRender == InitAgent /\ [][NextRender]_vars

\* ------------------------- the client against a backend that answers anything
\* What urlopen + json.load can give: no connection, undecodable JSON, or an
\* object with any of the keys "result" and "error", a result (0 for null)
\* and an error text or null.
ErrorTexts ==
  {"", "cannot create note because it is a duplicate", "Duplicate note", "DUPLICATE",
   "deck was not found: test", "model was not found: Basic"}

AnyResponses ==
  {Transport, BadJson}
    \cup {Envelope(keys, result, error) :
            keys \in SUBSET {"result", "error"}, result \in {0, 999},
            error \in {None} \cup {Some(text) : text \in ErrorTexts}}

ClientInputs ==
  [decks |-> {"test", "DemoDeck"}, deck_answers |-> {Ok(1), Err("unsupported action"), Transport}]

\* ensure_deck: invoke("createDeck", deck=deck_name)
ensure_deck(resp) == Invoke(resp)

\* A direct call anki.add_basic_note(deck, "hund", "dog", ["ai"]) whose backend
\* answers anything; what the earlier calls left is forgotten.
ClientAddNote(r) ==
  /\ pc[r] = "idle"
  /\ \A q \in 1..(r - 1) : Ended(q)
  /\ \E deck \in ClientInputs.decks, resp \in AnyResponses :
       /\ writes' = <<[r |-> r, action |-> "addNote",
                       note |-> BasicNote(deck, "hund", "dog", <<"ai">>), resp |-> resp,
                       inv |-> Invoke(resp), ret |-> add_basic_note(resp)]>>
       /\ note_id' = [q \in Requests |-> IF q = r THEN add_basic_note(resp) ELSE NoId]
  /\ pc' = [pc EXCEPT ![r] = "done"]
  /\ report' = [q \in Requests |-> NoValue]
  /\ UNCHANGED <<tool_called, max_retries, store, req, deps, message, attempt, calls, gen,
                 returns, output, verdicts>>

\* The tool add_flashcard of src/agent.py: ensure_deck, whose RuntimeError
\* leaves the tool, then add_basic_note.
ToolAddFlashcard(r) ==
  /\ pc[r] = "idle"
  /\ \A q \in 1..(r - 1) : Ended(q)
  /\ \E deck \in ClientInputs.decks, answer \in ClientInputs.deck_answers :
       LET created == [r |-> r, action |-> "createDeck", deck |-> deck, resp |-> answer,
                       inv |-> ensure_deck(answer)]
       IN IF ensure_deck(answer).raised
            THEN /\ writes' = <<created>>
                 /\ note_id' = [q \in Requests |-> NoId]
                 /\ report' = [q \in Requests |->
                                 IF q = r THEN "exception: RuntimeError" ELSE NoValue]
                 /\ pc' = [pc EXCEPT ![r] = "raised"]
            ELSE \E resp \in AnyResponses :
                   /\ writes' = <<created,
                                  [r |-> r, action |-> "addNote",
                                   note |-> BasicNote(deck, "hund", "dog", <<"ai">>),
                                   resp |-> resp, inv |-> Invoke(resp),
                                   ret |-> add_basic_note(resp)]>>
                   /\ note_id' = [q \in Requests |->
                                    IF q = r THEN add_basic_note(resp) ELSE NoId]
                   /\ report' = [q \in Requests |-> NoValue]
                   /\ pc' = [pc EXCEPT ![r] = "done"]
  /\ UNCHANGED <<tool_called, max_retries, store, req, deps, message, attempt, calls, gen,
                 returns, output, verdicts>>

NextClient == \E r \in Requests : ClientAddNote(r) \/ ToolAddFlashcard(r)

SpecClient == InitAgent /\ [][NextClient]_vars

\* ================================================================== claims
\* the tool invocations of r's current router run that ran their generator
Ran(r) == {i \in DOMAIN calls[r] : calls[r][i].ran}
\* the addNote submissions of request r
WritesOf(r) == {i \in DOMAIN writes : writes[i].r = r}
\* VerifyingAgent.run has returned to add_word
RunReturned(r) == pc[r] \in {"post", "done"}
Rejects(v) == v.kind = "VerificationOutput" /\ ~v.approved /\ ~v.uncertain
Accepts(v) == v.kind = "VerificationOutput" /\ (v.approved \/ v.uncertain)

\* C1 (SpecAgentSeq): within one add_word request on an AnkiAgent, only the
\* first generator-tool invocation runs its generator; every later one returns
\* "duplicate_tool_call_ignored" and runs nothing.
C1_FirstOnlyDispatch ==
  \A r \in Requests : \A i \in DOMAIN calls[r] :
    /\ i = 1 => calls[r][i].ran
    /\ i > 1 => ~calls[r][i].ran /\ calls[r][i].ret = "duplicate_tool_call_ignored"

\* a later request whose first tool produced a card and whose second was ignored
C1_Witness ==
  \E r \in Requests :
    /\ r > 1
    /\ Len(calls[r]) >= 2
    /\ calls[r][1].ret = "card"
    /\ calls[r][2].ret = "duplicate_tool_call_ignored"
    /\ StrValue(Sentinel) \in returns[r]

\* C2 (Spec): with max_retries = N >= 1 and only rejections, VerifyingAgent.run
\* makes exactly N router attempts and N verifier calls, never an (N+1)th, and
\* returns RouterFailure("Verification failed after N retries").
C2_BoundedRetry ==
  \A r \in Requests :
    /\ attempt[r] <= max_retries
    /\ Len(verdicts[r]) <= max_retries
    /\ (/\ RunReturned(r)
        /\ verdicts[r] # <<>>
        /\ \A i \in DOMAIN verdicts[r] : Rejects(verdicts[r][i]))
         => /\ attempt[r] = max_retries
            /\ Len(verdicts[r]) = max_retries
            /\ output[r].kind = "RouterFailure"
            /\ output[r].explanation
                 = "Verification failed after " \o ToString(max_retries) \o " retries"

\* a run that was rejected twice and returned the failure
C2_Witness ==
  \E r \in Requests :
    /\ RunReturned(r)
    /\ max_retries >= 2
    /\ Len(verdicts[r]) = max_retries
    /\ \A i \in DOMAIN verdicts[r] : Rejects(verdicts[r][i])
    /\ output[r].kind = "RouterFailure"

\* C3 (Spec): the run returns the result of the first attempt whose verdict is
\* approved or uncertain, whatever the reason, with no router or verifier call
\* after that verdict.
C3_VerdictPassThrough ==
  /\ [](\A r \in Requests : \A i \in DOMAIN verdicts[r] :
          Accepts(verdicts[r][i])
            => i = Len(verdicts[r]) /\ attempt[r] = i /\ RunReturned(r))
  /\ [][\A r \in Requests :
          (/\ pc[r] = "verify"
           /\ Len(verdicts'[r]) = Len(verdicts[r]) + 1
           /\ Accepts(verdicts'[r][Len(verdicts'[r])]))
            => output'[r] = output[r] /\ pc'[r] = "post"]_vars

\* a card returned on an uncertain, unapproved verdict after one rejection
C3_Witness ==
  \E r \in Requests :
    /\ pc[r] = "post"
    /\ Len(verdicts[r]) = 2
    /\ Rejects(verdicts[r][1])
    /\ verdicts[r][2].uncertain /\ ~verdicts[r][2].approved
    /\ IsFlashcard(output[r])

\* C4 (SpecAgent): with two concurrent add_word requests on one agent, each
\* request's first generator dispatch executes and each request executes at
\* most one generator.
C4_IndependentGuards ==
  \A r \in Requests :
    /\ calls[r] # <<>> => calls[r][1].ran
    /\ Cardinality(Ran(r)) <= 1

\* C5 (Spec): when the final output of a request is a RouterFailure, from the
\* router or from exhausting the retries, no note is submitted to the store.
C5_NoWriteOnFailure ==
  \A r \in Requests :
    (RunReturned(r) /\ output[r].kind = "RouterFailure")
      => WritesOf(r) = {} /\ note_id[r] = NoId

\* a request that ended after the retries were exhausted
C5_Witness ==
  \E r \in Requests :
    /\ pc[r] = "done"
    /\ output[r].kind = "RouterFailure"
    /\ Len(verdicts[r]) = max_retries
    /\ report[r] = "RouterFailure"

\* C6 (Spec): in the verified pipeline at most one generator executes within a
\* router attempt; a second invocation is rejected with
\* "duplicate_tool_call_ignored".
C6_OneGeneratorPerAttempt ==
  \A r \in Requests :
    /\ Cardinality(Ran(r)) <= 1
    /\ \A i \in DOMAIN calls[r] : i > 1 => calls[r][i].ret = "duplicate_tool_call_ignored"

\* C7 (Spec): a verifier output that is not a VerificationOutput makes the run
\* fail at once with an exception: no further router attempt or verifier call,
\* no note, and not the RouterFailure of exhausted retries.
C7_MalformedIsFatal ==
  \A r \in Requests : \A i \in DOMAIN verdicts[r] :
    verdicts[r][i].kind # "VerificationOutput"
      => /\ i = Len(verdicts[r])
         /\ attempt[r] = i
         /\ pc[r] = "raised"
         /\ report[r] = "exception: invalid verifier output"
         /\ WritesOf(r) = {}
         /\ output[r].kind = "RouterFailure"
              => output[r].explanation
                   # "Verification failed after " \o ToString(max_retries) \o " retries"

\* a malformed verifier output on the second attempt
C7_Witness ==
  \E r \in Requests :
    /\ Len(verdicts[r]) = 2
    /\ Rejects(verdicts[r][1])
    /\ verdicts[r][2].kind # "VerificationOutput"
    /\ pc[r] = "raised"

\* C8 (Spec): add_word_async always ends with a note created, a duplicate or a
\* failure with an explanation, never with an exception of an internal stage
\* escaping to the caller.
C8_NoEscapingException ==
  \A r \in Requests :
    /\ pc[r] # "raised"
    /\ pc[r] = "done" => report[r] \in {"note created", "duplicate", "RouterFailure"}

\* the i-th and j-th submissions are of the same (deck, front, back)
SameNote(i, j) ==
  /\ writes[i].note.deckName = writes[j].note.deckName
  /\ writes[i].note.fields = writes[j].note.fields
\* the submission was answered by the store, not by a failing backend
Answered(w) ==
  /\ w.resp.t = "json"
  /\ w.resp.keys = {"result", "error"}
  /\ w.resp.error \in {None, Some("cannot create note because it is a duplicate")}

\* C9 (SpecStore): with the deck-scoped duplicate policy, add_basic_note
\* returns a new note identifier for the first submission of a (deck, front,
\* back) and DUPLICATE_NOTE (-2) for its second submission; the same front and
\* back in another deck is created.
C9_DedupIdempotent ==
  \A j \in DOMAIN writes :
    Answered(writes[j])
      => IF \E i \in 1..(j - 1) : SameNote(i, j) /\ writes[i].ret > 0
           THEN writes[j].ret = -2
           ELSE writes[j].ret > 0 /\ \A i \in 1..(j - 1) : writes[i].ret # writes[j].ret

\* the same note submitted twice to one deck, both answered by the store
C9_Witness ==
  /\ Len(writes) = 2
  /\ SameNote(1, 2)
  /\ writes[1].ret > 0
  /\ writes[2].ret = -2

\* C10 (Spec): created, duplicate and failure are distinct outcomes of the
\* write, and a request whose write failed for a non-duplicate reason is
\* reported as a write failure, never as "note created".
C10_WriteFailureReported ==
  \A i \in DOMAIN writes :
    ~Answered(writes[i])
      => /\ writes[i].ret # -2
         /\ ~(writes[i].ret > 0)
         /\ report[writes[i].r] # "note created"

\* C11 (Spec): every addNote the pipeline submits for a deck is preceded, within
\* the same request, by a createDeck for that deck.
C11_DeckEnsuredBeforeWrite ==
  \A i \in DOMAIN writes :
    writes[i].action = "addNote"
      => \E j \in 1..(i - 1) :
           /\ writes[j].action = "createDeck"
           /\ writes[j].r = writes[i].r
           /\ writes[j].deck = writes[i].note.deckName

\* C13 (SpecAgentSeq): the note add_word writes has as its front the source
\* text the router passed to the generator (" (verb)" appended for a verb
\* card), also when it differs from the word argument, and as its deck the deck
\* argument.
C13_FrontIsSource ==
  \A i \in DOMAIN writes :
    LET r == writes[i].r
        source == calls[r][1].source
    IN /\ writes[i].note.fields.Front
            = IF output[r].kind = "verb" THEN source \o " (verb)" ELSE source
       /\ writes[i].note.deckName = req[r].deck

\* an int among the contents of the returned messages
IntValue(n) == [kind |-> "int", value |-> n]

\* C15 (Spec): the value add_word returns conveys the outcome: it contains the
\* store's note identifier when a note was created, the duplicate sentinel when
\* the store reported a duplicate, and a failure explanation otherwise.
C15_ReturnConveysOutcome ==
  \A r \in Requests :
    pc[r] = "done"
      => IF note_id[r] > 0 \/ note_id[r] = -2
           THEN IntValue(note_id[r]) \in AllMessages(r)
           ELSE report[r] = "RouterFailure"
                  => \E m \in AllMessages(r) :
                       m.kind = "RouterFailure" /\ m.explanation = output[r].explanation

C17_FailureIsTerminal ==
  [][\A r \in Requests :
       (pc[r] = "verify" /\ output[r].kind = "RouterFailure")
         => /\ pc'[r] \in {"verify", "post", "raised"}
            /\ attempt'[r] = attempt[r]
            /\ calls'[r] = calls[r]
            /\ writes' = writes]_vars

\* C18 (Spec): a router attempt whose output is outside the closed set of the
\* five cards and RouterFailure is fatal: it is not retried and no note is
\* written for it.
C18_SchemaViolationIsFatal ==
  /\ [](\A r \in Requests :
          (RunReturned(r) /\ output[r].kind \notin Kinds \cup {"RouterFailure"})
            => WritesOf(r) = {})
  /\ [][\A r \in Requests :
          (pc[r] = "verify" /\ output[r].kind \notin Kinds \cup {"RouterFailure"})
            => /\ pc'[r] # "router"
               /\ attempt'[r] = attempt[r]]_vars

\* the lines of a text
RECURSIVE SplitLines(_)
SplitLines(s) ==
  IF ~Contains(s, "\n") THEN <<s>>
  ELSE LET i == CHOOSE k \in 1..Len(s) :
                  SubSeq(s, k, k) = "\n" /\ \A j \in 1..(k - 1) : SubSeq(s, j, j) # "\n"
       IN <<SubSeq(s, 1, i - 1)>> \o SplitLines(SubSeq(s, i + 1, Len(s)))

StartsWith(s, prefix) == Len(s) >= Len(prefix) /\ SubSeq(s, 1, Len(prefix)) = prefix

\* the values occur in the text one after the other, in this order
RECURSIVE InOrder(_, _)
InOrder(text, values) ==
  \/ values = <<>>
  \/ /\ Contains(text, values[1])
     /\ LET v == values[1]
            i == CHOOSE k \in 1..Len(text) :
                   /\ SubSeq(text, k, k + Len(v) - 1) = v
                   /\ \A j \in 1..(k - 1) : SubSeq(text, j, j + Len(v) - 1) # v
        IN InOrder(SubSeq(text, i + Len(v), Len(text)), Tail(values))

\* the values of a card's mandatory fields, in its variant's line order
Mandatory(card) ==
  CASE card.kind = "noun" ->
         <<card.translation, card.article, card.plural, card.definite_sg, card.definite_pl,
           card.sample>>
    [] card.kind = "adjective" -> <<card.translation, card.positive, card.sample>>
    [] card.kind = "verb" ->
         <<card.translation, card.infinitive, card.present, card.sample_present, card.past,
           card.sample_past, card.supine, card.sample_supine, card.imperative,
           card.sample_imperative>>
    [] card.kind = "phrase" -> <<card.text_sv, card.translation, card.sample>>
    [] card.kind = "fallback" -> <<card.source>>

\* a card's optional fields, each with the label of its line
Optionals(card) ==
  CASE card.kind = "adjective" ->
         {[label |-> "Comparative:", value |-> card.comparative],
          [label |-> "Superlative:", value |-> card.superlative]}
    [] card.kind = "phrase" -> {[label |-> "Pattern:", value |-> card.pattern]}
    [] card.kind = "fallback" ->
         {[label |-> "Translation:", value |-> card.translation],
          [label |-> "Sample:", value |-> card.sample],
          [label |-> "Notes:", value |-> card.notes]}
    [] OTHER -> {}

Unset(value) == value = <<>> \/ value = <<"">>

\* C12 (SpecRender): for every card variant and every combination of set and
\* unset optional fields, the back contains every mandatory field's value in
\* the variant's line order and no line for an unset (None or empty) optional
\* field; a FallbackCard with only source and notes renders exactly
\* "Source: <source>\nNotes: <notes>".
C12_RenderComplete ==
  \A i \in DOMAIN writes :
    LET card == output[writes[i].r]
        back == writes[i].note.fields.Back
        lines == SplitLines(back)
    IN /\ InOrder(back, Mandatory(card))
       /\ \A o \in Optionals(card) :
            IF Unset(o.value)
              THEN \A k \in DOMAIN lines : ~StartsWith(lines[k], o.label)
              ELSE \E k \in DOMAIN lines : lines[k] = o.label \o " " \o o.value[1]
       /\ (/\ card.kind = "fallback"
           /\ Unset(card.translation) /\ Unset(card.sample) /\ ~Unset(card.notes))
            => back = "Source: " \o card.source \o "\nNotes: " \o card.notes[1]

\* a fallback card with an empty translation, no sample and notes, and an
\* adjective card with an empty superlative, have been rendered
C12_Witness ==
  \E i \in DOMAIN writes :
    LET card == output[writes[i].r] IN
    /\ card.kind = "fallback"
    /\ card.translation = <<"">> /\ card.sample = <<>> /\ card.notes = <<"n-hund">>
    /\ writes[i].note.fields.Back = "Source: hund\nNotes: n-hund"

\* the elements of a list
Range(seq) == {seq[k] : k \in DOMAIN seq}

\* C14 (SpecRender): every note submitted through add_flashcard carries the
\* tag "ai", the tag of the variant of the card written and of no other
\* variant, and the caller's tags.
C14_Tags ==
  \A i \in DOMAIN writes :
    LET card == output[writes[i].r]
        tags == Range(writes[i].note.tags)
    IN /\ "ai" \in tags
       /\ tags \cap {"noun", "adjective", "verb", "phrase", "fallback"} = {card.kind}
       /\ Range(req[writes[i].r].tags) \subseteq tags

\* a verb card written with a tag of the caller
C14_Witness ==
  \E i \in DOMAIN writes :
    /\ output[writes[i].r].kind = "verb"
    /\ req[writes[i].r].tags = <<"mine">>
    /\ writes[i].note.tags = <<"mine", "ai", "verb">>

\* the error texts that name a duplicate, in whatever letter case
DuplicateTexts ==
  {"cannot create note because it is a duplicate", "Duplicate note", "DUPLICATE"}

\* the response is an envelope with both keys
WellFormed(resp) == resp.t = "json" /\ resp.keys = {"result", "error"}

\* C19 (SpecClient): add_basic_note returns the duplicate sentinel if and only
\* if the envelope's error text contains "duplicate" in any letter case; every
\* other envelope error, transport failure, malformed JSON or malformed
\* envelope yields a failure outcome that is not the sentinel.
C19_DuplicateIffErrorText ==
  \A i \in DOMAIN writes :
    writes[i].action = "addNote"
      => LET resp == writes[i].resp
             duplicate == /\ WellFormed(resp)
                          /\ resp.error # <<>>
                          /\ resp.error[1] \in DuplicateTexts
             success == WellFormed(resp) /\ resp.error = <<>>
         IN /\ writes[i].ret = -2 <=> duplicate
            /\ (~duplicate /\ ~success) => writes[i].ret = -1

\* a duplicate reported in capitals gave the sentinel
C19_Witness ==
  \E i \in DOMAIN writes :
    /\ writes[i].action = "addNote"
    /\ writes[i].resp = Err("DUPLICATE")
    /\ writes[i].ret = -2

\* C20 (SpecClient): invoke returns the envelope's result exactly when the
\* response has both keys and a null error; with a non-null error it raises an
\* error whose message contains the backend's error text; with a missing key,
\* a transport failure or undecodable JSON it raises and returns no result.
C20_InvokeEnvelope ==
  \A i \in DOMAIN writes :
    LET resp == writes[i].resp
        inv == writes[i].inv
    IN /\ ~inv.raised <=> (WellFormed(resp) /\ resp.error = <<>>)
       /\ ~inv.raised => inv.value = resp.result
       /\ (WellFormed(resp) /\ resp.error # <<>>)
            => inv.raised /\ Contains(inv.msg, resp.error[1])

\* an envelope with an error and a result raised the error
C20_Witness ==
  \E i \in DOMAIN writes :
    /\ writes[i].resp = Envelope({"result", "error"}, 999, <<"deck was not found: test">>)
    /\ writes[i].inv.raised
    /\ writes[i].inv.msg = "deck was not found: test"

\* C30 (Spec): with max_retries = 0, VerifyingAgent.run makes no router and no
\* verifier call and returns a result whose output is
\* RouterFailure("Verification failed after 0 retries").
C30_ZeroRetries ==
  \A r \in Requests :
    (max_retries = 0 /\ pc[r] # "idle")
      => /\ pc[r] # "raised"
         /\ calls[r] = <<>>
         /\ verdicts[r] = <<>>
         /\ RunReturned(r) => output[r] = RouterFailure("Verification failed after 0 retries")

\* C23 (SpecAgentSeq): add_word clears the guard when a request starts, so in
\* requests issued one after the other on one AnkiAgent the first generator
\* dispatch of each request runs, whatever the requests before it did.
C23_GuardResetPerRequest ==
  \A r \in Requests :
    /\ (pc[r] = "router" /\ calls[r] = <<>>) => ~tool_called
    /\ calls[r] # <<>> => calls[r][1].ran /\ calls[r][1].ret # Sentinel

\* a later request's first tool produced its card after an earlier request
\* had run a generator, which set the guard, and had written its card
C23_Witness ==
  \E r \in Requests :
    /\ r > 1
    /\ store # {}
    /\ pc[r] = "router"
    /\ calls[r] # <<>>
    /\ calls[r][1].ran
    /\ calls[r][1].ret = "card"

\* C24 (Spec): in every router attempt of a VerifyingAgent.run, retries after
\* a rejection included, the first generator dispatch of the attempt runs its
\* generator: nothing an earlier attempt did makes it an ignored call.
C24_RetryStartsUnguarded ==
  \A r \in Requests :
    (attempt[r] >= 1 /\ calls[r] # <<>>)
      => /\ calls[r][1].ran
         /\ calls[r][1].ret \in {Running, "card", "raised"}

\* the first tool of a second attempt produced its card after the first
\* attempt's card was rejected
C24_Witness ==
  \E r \in Requests :
    /\ attempt[r] = 2
    /\ Len(verdicts[r]) = 1
    /\ Rejects(verdicts[r][1])
    /\ calls[r] # <<>>
    /\ calls[r][1].ret = "card"

\* text followed by the feedback line of each verdict of vs, in order
RECURSIVE WithFeedback(_, _)
WithFeedback(text, vs) ==
  IF vs = <<>> THEN text
  ELSE WithFeedback(text \o "\nVerifier feedback: " \o Head(vs).reason, Tail(vs))

\* C26 (Spec): after k rejections with reasons r1..rk, the message given to
\* the router on attempt k+1 is the original user message followed by the
\* feedback r1, .., rk in that order: none dropped, replaced or reordered.
C26_FeedbackAccumulates ==
  \A r \in Requests :
    pc[r] \in {"router", "generating", "verify"}
      => /\ Len(verdicts[r]) = attempt[r] - 1
         /\ \A i \in DOMAIN verdicts[r] : Rejects(verdicts[r][i])
         /\ message[r]
              = WithFeedback(UserMessage(req[r].word, req[r].target_lang), verdicts[r])

\* a third attempt whose message carries two different reasons
C26_Witness ==
  \E r \in Requests :
    /\ pc[r] = "router"
    /\ attempt[r] = 3
    /\ verdicts[r][1].reason = "too vague"
    /\ verdicts[r][2].reason = "missing sample"
    /\ message[r] = "Word: hund\nTarget language: Swedish"
                       \o "\nVerifier feedback: too vague"
                       \o "\nVerifier feedback: missing sample"

\* C27 (Spec): a note is submitted only after the verifier's approved or
\* uncertain verdict on the very card that is written, with the run returned:
\* a card whose verdict was a rejection is never written.
C27_WriteOnlyAfterPass ==
  \A i \in DOMAIN writes :
    LET r == writes[i].r IN
    /\ pc[r] = "done"
    /\ IsFlashcard(output[r])
    /\ writes[i].note = add_flashcard(req[r].deck, req[r].word, output[r], <<>>)
    /\ verdicts[r] # <<>>
    /\ Len(verdicts[r]) = attempt[r]
    /\ Accepts(verdicts[r][Len(verdicts[r])])
    /\ \A k \in 1..(Len(verdicts[r]) - 1) : Rejects(verdicts[r][k])

\* a card written on an uncertain verdict, after the card before it was rejected
C27_Witness ==
  \E i \in DOMAIN writes :
    LET r == writes[i].r IN
    /\ Len(verdicts[r]) = 2
    /\ Rejects(verdicts[r][1])
    /\ ~verdicts[r][2].approved
    /\ verdicts[r][2].uncertain
    /\ writes[i].ret > 0

\* C29 (Spec): a request submits at most one note, and exactly one when its
\* final output is a card; attempts that were rejected submit nothing.
C29_OneWritePerRequest ==
  \A r \in Requests :
    /\ Cardinality(WritesOf(r)) <= 1
    /\ pc[r] # "done" => WritesOf(r) = {}
    /\ pc[r] = "done" => (Cardinality(WritesOf(r)) = 1 <=> IsFlashcard(output[r]))

\* a request that made three attempts and submitted one note
C29_Witness ==
  \E r \in Requests :
    /\ pc[r] = "done"
    /\ attempt[r] = 3
    /\ IsFlashcard(output[r])
    /\ Cardinality(WritesOf(r)) = 1

\* C25 (SpecOrchConc): two VerifyingAgent.run calls in progress at once on one
\* orchestrator keep their own attempt counter and their own message: a run's
\* message holds its own rejections only, and it is exhausted by max_retries
\* rejections of its own, not by the other run's.
C25_IndependentRuns ==
  \A r \in Tasks :
    /\ attempt[r] <= max_retries
    /\ pc[r] \in {"router", "generating", "verify"}
         => /\ attempt[r] = Len(verdicts[r]) + 1
            /\ message[r]
                 = WithFeedback(UserMessage(req[r].word, req[r].target_lang), verdicts[r])
    /\ (RunReturned(r) /\ output[r] = Exhausted(max_retries))
         => /\ Len(verdicts[r]) = max_retries
            /\ \A i \in DOMAIN verdicts[r] : Rejects(verdicts[r][i])
    /\ (RunReturned(r) /\ output[r] \notin {NoOutput, Exhausted(max_retries)})
         => /\ Accepts(verdicts[r][Len(verdicts[r])])
            /\ message[r] = WithFeedback(UserMessage(req[r].word, req[r].target_lang),
                                          SubSeq(verdicts[r], 1, Len(verdicts[r]) - 1))

\* both runs in progress: one on its second attempt after a rejection, the
\* other before its first verdict, its message without feedback
C25_Witness ==
  /\ max_retries = 2
  /\ pc[1] = "router"
  /\ attempt[1] = 2
  /\ verdicts[1][1].reason = "too vague"
  /\ pc[2] = "verify"
  /\ attempt[2] = 1
  /\ message[2] = "Word: hund\nTarget language: Swedish"

\* C22 (SpecAgentPair): when two requests running at once submit the same (front,
\* back) to the same deck and the store answers both, one of them obtains the
\* new note identifier and the other the duplicate outcome -2; neither ends
\* with the error -1 and the store holds the note once.
C22_ConcurrentDuplicate ==
  \A i, j \in DOMAIN writes :
    (/\ i < j
     /\ writes[i].r # writes[j].r
     /\ SameNote(i, j)
     /\ Answered(writes[i])
     /\ Answered(writes[j]))
      => /\ writes[i].ret > 0
         /\ writes[j].ret = DUPLICATE_NOTE
         /\ Cardinality({n \in store : /\ n.deck = writes[j].note.deckName
                                        /\ n.front = writes[j].note.fields.Front
                                        /\ n.back = writes[j].note.fields.Back}) = 1

\* two requests in progress at once wrote the same note: the first got the
\* identifier, the second the duplicate outcome
C22_Witness ==
  /\ Len(writes) = 2
  /\ writes[1].r # writes[2].r
  /\ SameNote(1, 2)
  /\ writes[1].ret > 0
  /\ writes[2].ret = DUPLICATE_NOTE
  /\ Cardinality(store) = 1

\* C28 (SpecDecks): the deck and the target language a request was given are
\* what every router attempt of it gets, retries included, and the deck its
\* note is written to: only the message changes between attempts, and it
\* keeps starting with the request's word and target language.
C28_DepsCarried ==
  /\ \A r \in Requests :
       req[r] # NoReq
         => /\ deps[r] = [deck |-> req[r].deck, target_lang |-> req[r].target_lang]
            /\ StartsWith(message[r], UserMessage(req[r].word, req[r].target_lang))
  /\ \A i \in DOMAIN writes : writes[i].note.deckName = req[writes[i].r].deck

\* a request for DemoDeck and svenska wrote its note to DemoDeck on its second
\* attempt, after a request for the deck test had written there
C28_Witness ==
  \E i \in DOMAIN writes :
    LET r == writes[i].r IN
    /\ attempt[r] = 2
    /\ req[r].deck = "DemoDeck"
    /\ req[r].target_lang = "svenska"
    /\ writes[i].note.deckName = "DemoDeck"
    /\ writes[i].ret > 0
    /\ \E n \in store : n.deck = "test"

\* the generator dispatches of request r, in order
Dispatches(r) == SelectSeq(calls[r], LAMBDA c : c.ran)
\* the notes request r submitted to the store and what it got for each
Submissions(r) ==
  LET mine == SelectSeq(writes, LAMBDA w : w.r = r) IN
  [i \in DOMAIN mine |-> [note |-> mine[i].note, ret |-> mine[i].ret]]
\* what the caller of request r sees: the returned messages, or the exception
CallerSees(r) ==
  IF pc[r] = "done" THEN [raised |-> FALSE, messages |-> AllMessages(r), log |-> report[r]]
  ELSE [raised |-> TRUE, messages |-> {}, log |-> report[r]]

\* C21 (SpecModes): under one script of the classifier, the generators and
\* the store, add_word and add_word_async of AnkiAgent make the same sequence
\* of generator dispatches and the same store submissions and return the same
\* value.
C21_ModesEquivalent ==
  (Ended(AsyncCall) /\ Ended(SyncCall))
    => /\ calls[SyncCall] = calls[AsyncCall]
       /\ Dispatches(SyncCall) = Dispatches(AsyncCall)
       /\ Submissions(SyncCall) = Submissions(AsyncCall)
       /\ CallerSees(SyncCall) = CallerSees(AsyncCall)

\* both calls dispatched one generator, had their second tool ignored, and
\* submitted the card; both returned
C21_Witness ==
  /\ pc[AsyncCall] = "done"
  /\ pc[SyncCall] = "done"
  /\ Len(Dispatches(SyncCall)) = 1
  /\ Len(calls[SyncCall]) = 2
  /\ Len(Submissions(SyncCall)) = 1
  /\ Len(Submissions(AsyncCall)) = 1
  /\ note_id[SyncCall] > 0

\* C31 (SpecLive): provided every classifier, generator, verifier and store
\* call comes back, every add_word_async request that started ends, and it
\* makes at most max_retries router attempts, at most max_retries verifier
\* calls and at most one store submission.
C31_Terminates ==
  /\ [](\A r \in Requests :
          /\ attempt[r] <= max_retries
          /\ Len(verdicts[r]) <= attempt[r]
          /\ Cardinality(WritesOf(r)) <= 1)
  /\ \A r \in Requests : (pc[r] # "idle") ~> Ended(r)

\* a request that ended with its note submitted on the last attempt max_retries allows
C31_Witness ==
  \E r \in Requests :
    /\ pc[r] = "done"
    /\ max_retries = MaxRetries
    /\ attempt[r] = max_retries
    /\ Len(verdicts[r]) = max_retries
    /\ Cardinality(WritesOf(r)) = 1
====
